---- MODULE Spec2Model ----
(***************************************************************************)
(* ColourSS: the CSS colour parser of src/src/lib.rs.                      *)
(*                                                                         *)
(* A string is a sequence of characters, each character a one-character    *)
(* TLA+ string.  parse_color is a pure function; the state machine draws   *)
(* an input string, applies parse_color to it and keeps the result.        *)
(***************************************************************************)
EXTENDS Integers, Sequences, FiniteSets, TLC

VARIABLES input, pc, result

vars == <<input, pc, result>>

-----------------------------------------------------------------------------
(* Characters and strings (Rust str: UTF-8, lengths and slices in bytes).  *)

\* The one non-ASCII character of the model ("e" with acute accent, U+00E9).
EAcute == "é"

\* UTF-8 width of a character.
ByteLen(c) == IF c = EAcute THEN 2 ELSE 1

RECURSIVE str_len(_)
str_len(s) == IF s = <<>> THEN 0 ELSE ByteLen(Head(s)) + str_len(Tail(s))

\* Whether byte offset n falls on a character boundary of s.
is_char_boundary(s, n) == \E k \in 0..Len(s) : str_len(SubSeq(s, 1, k)) = n

\* &s[a..b]: the slice between two byte offsets; it panics when an offset is
\* out of range or inside a character.
str_slice(s, a, b) ==
  IF a <= b /\ is_char_boundary(s, a) /\ is_char_boundary(s, b)
  THEN LET ka == CHOOSE k \in 0..Len(s) : str_len(SubSeq(s, 1, k)) = a
           kb == CHOOSE k \in 0..Len(s) : str_len(SubSeq(s, 1, k)) = b
       IN  [ok |-> TRUE, str |-> SubSeq(s, ka + 1, kb)]
  ELSE [ok |-> FALSE, str |-> <<>>]

IsWhitespace(c) == c \in {" ", "\t"}

RECURSIVE trim_start(_)
trim_start(s) ==
  IF s # <<>> /\ IsWhitespace(Head(s)) THEN trim_start(Tail(s)) ELSE s

RECURSIVE trim_end(_)
trim_end(s) ==
  IF s # <<>> /\ IsWhitespace(s[Len(s)])
  THEN trim_end(SubSeq(s, 1, Len(s) - 1)) ELSE s

trim(s) == trim_end(trim_start(s))

starts_with(s, p) == Len(s) >= Len(p) /\ SubSeq(s, 1, Len(p)) = p

ends_with(s, p) ==
  Len(s) >= Len(p) /\ SubSeq(s, Len(s) - Len(p) + 1, Len(s)) = p

UpperLetters ==
  <<"A", "B", "C", "D", "E", "F", "G", "H", "I", "J", "K", "L", "M",
    "N", "O", "P", "Q", "R", "S", "T", "U", "V", "W", "X", "Y", "Z">>

LowerLetters ==
  <<"a", "b", "c", "d", "e", "f", "g", "h", "i", "j", "k", "l", "m",
    "n", "o", "p", "q", "r", "s", "t", "u", "v", "w", "x", "y", "z">>

DigitChars == <<"0", "1", "2", "3", "4", "5", "6", "7", "8", "9">>

IndexOf(seq, c) == CHOOSE i \in 1..Len(seq) : seq[i] = c

Occurs(seq, c) == \E i \in 1..Len(seq) : seq[i] = c

char_to_lowercase(c) ==
  IF Occurs(UpperLetters, c) THEN LowerLetters[IndexOf(UpperLetters, c)] ELSE c

char_to_uppercase(c) ==
  IF Occurs(LowerLetters, c) THEN UpperLetters[IndexOf(LowerLetters, c)] ELSE c

to_lowercase(s) ==
  IF s = <<>> THEN <<>> ELSE [i \in 1..Len(s) |-> char_to_lowercase(s[i])]

\* A digit value admitted by the radix, or -1.
in_radix(v, radix) == IF v >= 0 /\ v < radix THEN v ELSE -1

\* Mutant of to_digit: upper-case hexadecimal letters are no digits.
to_digit_lower_only(c, radix) ==
  in_radix(IF Occurs(DigitChars, c) THEN IndexOf(DigitChars, c) - 1
           ELSE IF Occurs(LowerLetters, c) THEN 9 + IndexOf(LowerLetters, c)
           ELSE -1,
           radix)

\* The value of a lower-case letter as a digit ('a' is 10), or -1.
letter_digit(low) ==
  IF Occurs(LowerLetters, low) THEN 9 + IndexOf(LowerLetters, low) ELSE -1

\* char::to_digit(radix) for radix <= 16: the digit's value, or -1.
to_digit(c, radix) ==
  in_radix(IF Occurs(DigitChars, c) THEN IndexOf(DigitChars, c) - 1
           ELSE letter_digit(char_to_lowercase(c)),
           radix)

-----------------------------------------------------------------------------
(* Results: Ok(Color {r, g, b}), Err(ParseError), or a panic (abort).      *)

Ok(r, g, b) == [kind |-> "Ok", r |-> r, g |-> g, b |-> b]

Err(k) == [kind |-> k]

ErrWith(k, text) == [kind |-> k, text |-> text]

Panic == [kind |-> "Panic"]

ErrorKinds ==
  {"InvalidHexFormat", "InvalidRgbFormat", "InvalidHslFormat",
   "InvalidComponentValue", "UnknownColorName", "ParseFailure"}

-----------------------------------------------------------------------------
(* Integer parsing.                                                        *)

U8Max == 255

RECURSIVE digits_value(_, _, _)
\* One digit d of s taken into acc; -1 when d is no digit or the value
\* leaves the range of u8.
digits_step(s, radix, acc, d) ==
  IF d < 0 THEN -1
  ELSE IF acc * radix + d > U8Max THEN -1
  ELSE digits_value(Tail(s), radix, acc * radix + d)

\* The digits of s accumulated in the given radix from acc; -1 on a character
\* that is no digit or on a value above u8::MAX.
digits_value(s, radix, acc) ==
  IF s = <<>> THEN acc
  ELSE digits_step(s, radix, acc, to_digit(Head(s), radix))

\* u8::from_str_radix: an optional '+' sign, then one or more digits; -1 is Err.
u8_from_str_radix(s, radix) ==
  IF s = <<>> THEN -1
  ELSE IF Len(s) = 1 /\ Head(s) \in {"+", "-"} THEN -1
  ELSE IF Head(s) = "+" THEN digits_value(Tail(s), radix, 0)
  ELSE digits_value(s, radix, 0)

-----------------------------------------------------------------------------
(* Rule 1: hex.                                                            *)

\* The value of one digit group; v < 0 is a failed from_str_radix.
hex_value(v) ==
  IF v < 0 THEN [st |-> "err", v |-> 0] ELSE [st |-> "ok", v |-> v]

\* A slice sl, repeated `times`, parsed in base 16.
hex_sliced(sl, times) ==
  IF ~sl.ok THEN [st |-> "panic", v |-> 0]
  ELSE hex_value(u8_from_str_radix(
                   IF times = 2 THEN sl.str \o sl.str ELSE sl.str, 16))

\* One channel: slice hex[a..b], repeat it `times`, parse it in base 16.
hex_channel(hex, a, b, times) == hex_sliced(str_slice(hex, a, b), times)

\* The colour of three channels; the first one that panicked or did not parse
\* ends the call.
hex_color(r, g, b) ==
  IF r.st # "ok" THEN (IF r.st = "panic" THEN Panic ELSE Err("InvalidHexFormat"))
  ELSE IF g.st # "ok"
       THEN (IF g.st = "panic" THEN Panic ELSE Err("InvalidHexFormat"))
  ELSE IF b.st # "ok"
       THEN (IF b.st = "panic" THEN Panic ELSE Err("InvalidHexFormat"))
  ELSE Ok(r.v, g.v, b.v)

\* r, g and b in this order, each w bytes wide.
hex_channels(hex, w, times) ==
  hex_color(hex_channel(hex, 0, w, times),
            hex_channel(hex, w, 2 * w, times),
            hex_channel(hex, 2 * w, 3 * w, times))

\* Mutant of parse_hex: the forms with alpha digits are not recognised.
parse_hex_no_alpha(inp) ==
  LET hex == Tail(inp)
      n == str_len(hex)
  IN  CASE n = 3 -> hex_channels(hex, 1, 2)
        [] n = 6 -> hex_channels(hex, 2, 1)
        [] OTHER -> Err("InvalidHexFormat")

parse_hex(inp) ==
  LET hex == Tail(inp)
      n == str_len(hex)
  IN  CASE n = 3 -> hex_channels(hex, 1, 2)
        [] n = 4 -> hex_channels(hex, 1, 2)
        [] n = 6 -> hex_channels(hex, 2, 1)
        [] n = 8 -> hex_channels(hex, 2, 1)
        [] OTHER -> Err("InvalidHexFormat")

-----------------------------------------------------------------------------
(* Rule 4: named colours.                                                  *)

NamedTable ==
  {
    [name |-> <<"r", "e", "d">>, r |-> 255, g |-> 0, b |-> 0],
    [name |-> <<"l", "i", "m", "e">>, r |-> 0, g |-> 255, b |-> 0],
    [name |-> <<"b", "l", "u", "e">>, r |-> 0, g |-> 0, b |-> 255],
    [name |-> <<"w", "h", "i", "t", "e">>, r |-> 255, g |-> 255, b |-> 255],
    [name |-> <<"b", "l", "a", "c", "k">>, r |-> 0, g |-> 0, b |-> 0],
    [name |-> <<"y", "e", "l", "l", "o", "w">>, r |-> 255, g |-> 255, b |-> 0],
    [name |-> <<"c", "y", "a", "n">>, r |-> 0, g |-> 255, b |-> 255],
    [name |-> <<"m", "a", "g", "e", "n", "t", "a">>, r |-> 255, g |-> 0, b |-> 255],
    [name |-> <<"a", "q", "u", "a">>, r |-> 0, g |-> 255, b |-> 255],
    [name |-> <<"f", "u", "c", "h", "s", "i", "a">>, r |-> 255, g |-> 0, b |-> 255],
    [name |-> <<"o", "r", "a", "n", "g", "e">>, r |-> 255, g |-> 165, b |-> 0],
    [name |-> <<"p", "i", "n", "k">>, r |-> 255, g |-> 192, b |-> 203],
    [name |-> <<"b", "r", "o", "w", "n">>, r |-> 165, g |-> 42, b |-> 42],
    [name |-> <<"s", "i", "l", "v", "e", "r">>, r |-> 192, g |-> 192, b |-> 192],
    [name |-> <<"g", "r", "a", "y">>, r |-> 128, g |-> 128, b |-> 128],
    [name |-> <<"m", "a", "r", "o", "o", "n">>, r |-> 128, g |-> 0, b |-> 0],
    [name |-> <<"o", "l", "i", "v", "e">>, r |-> 128, g |-> 128, b |-> 0],
    [name |-> <<"g", "r", "e", "e", "n">>, r |-> 0, g |-> 128, b |-> 0],
    [name |-> <<"p", "u", "r", "p", "l", "e">>, r |-> 128, g |-> 0, b |-> 128],
    [name |-> <<"t", "e", "a", "l">>, r |-> 0, g |-> 128, b |-> 128],
    [name |-> <<"n", "a", "v", "y">>, r |-> 0, g |-> 0, b |-> 128],
    [name |-> <<"r", "e", "b", "e", "c", "c", "a", "p", "u", "r", "p", "l", "e">>, r |-> 102, g |-> 51, b |-> 153],
    [name |-> <<"c", "o", "f", "f", "e", "e">>, r |-> 192, g |-> 255, b |-> 238]
  }

\* The colour of the table entries hits, if any.
named_result(hits, inp) ==
  IF hits # {}
  THEN LET e == CHOOSE x \in hits : TRUE IN Ok(e.r, e.g, e.b)
  ELSE ErrWith("UnknownColorName", inp)

\* The match on the keyword; the error carries the input as given.
named_lookup(keyword, inp) ==
  named_result({e \in NamedTable : e.name = keyword}, inp)

\* Mutant of parse_named: the lookup is case-sensitive.
parse_named_case_sensitive(inp) == named_lookup(inp, inp)

parse_named(inp) == named_lookup(to_lowercase(inp), inp)

-----------------------------------------------------------------------------
(* f32: IEEE 754 binary32, round to nearest, ties to even.                 *)
(*                                                                         *)
(* A finite value is (-1)^neg * m * 2^e with m = 0 or 2^23 <= m < 2^24.    *)
(* Subnormals and exponent overflow lie outside the inputs of the model.   *)
(* Every intermediate integer stays below 2^31.                            *)

Pow2(n) == 2 ^ n

MantBits == 24

F32Zero == [cls |-> "fin", neg |-> FALSE, m |-> 0, e |-> 0]

F32NaN == [cls |-> "nan", neg |-> FALSE, m |-> 0, e |-> 0]

F32Inf(neg) == [cls |-> "inf", neg |-> neg, m |-> 0, e |-> 0]

F32Fin(neg, m, e) == [cls |-> "fin", neg |-> neg, m |-> m, e |-> e]

\* q with a remainder of rem out of unit, rounded to nearest even, as m * 2^e.
F32RoundMant(neg, q, rem, unit, e) ==
  LET up == 2 * rem > unit \/ (2 * rem = unit /\ q % 2 = 1)
      q1 == IF up THEN q + 1 ELSE q
  IN  IF q1 = Pow2(MantBits)
      THEN F32Fin(neg, Pow2(MantBits - 1), e + 1)
      ELSE F32Fin(neg, q1, e)

RECURSIVE F32FromRatio(_, _, _, _)
\* The f32 nearest to (num / den) * 2^e, for num >= 0 and 0 < den < 128.
F32FromRatio(neg, num, den, e) ==
  IF num = 0 THEN [F32Zero EXCEPT !.neg = neg]
  ELSE IF num < den * Pow2(MantBits - 1)
       THEN F32FromRatio(neg, 2 * num, den, e - 1)
  ELSE IF num \div Pow2(MantBits) >= den
       THEN F32FromRatio(neg, num, 2 * den, e + 1)
  ELSE F32RoundMant(neg, num \div den, num % den, den, e)

F32FromInt(n) ==
  IF n < 0 THEN F32FromRatio(TRUE, -n, 1, 0) ELSE F32FromRatio(FALSE, n, 1, 0)

\* Magnitude comparison of two finite values.
F32MagLt(a, b) ==
  IF a.m = 0 THEN b.m # 0
  ELSE IF b.m = 0 THEN FALSE
  ELSE a.e < b.e \/ (a.e = b.e /\ a.m < b.m)

\* a < b (false when either is NaN).
F32Lt(a, b) ==
  IF a.cls = "nan" \/ b.cls = "nan" THEN FALSE
  ELSE IF a.cls = "inf" THEN a.neg /\ ~(b.cls = "inf" /\ b.neg)
  ELSE IF b.cls = "inf" THEN ~b.neg
  ELSE IF a.m = 0 /\ b.m = 0 THEN FALSE
  ELSE IF a.neg # b.neg THEN a.neg
  ELSE IF a.neg THEN F32MagLt(b, a) ELSE F32MagLt(a, b)

F32Eq(a, b) ==
  IF a.cls = "nan" \/ b.cls = "nan" THEN FALSE
  ELSE IF a.cls = "inf" \/ b.cls = "inf" THEN a.cls = b.cls /\ a.neg = b.neg
  ELSE (a.m = 0 /\ b.m = 0) \/ (a.neg = b.neg /\ a.m = b.m /\ a.e = b.e)

F32Le(a, b) == F32Lt(a, b) \/ F32Eq(a, b)

\* (lo..=hi).contains(&x)
F32InRange(x, lo, hi) == F32Le(lo, x) /\ F32Le(x, hi)

F32Neg(a) == IF a.cls = "nan" THEN a ELSE [a EXCEPT !.neg = ~a.neg]

\* n shifted right by d bits, the bits shifted out or-ed into the last bit.
ShiftRightSticky(n, d) ==
  IF d = 0 THEN n
  ELSE IF d > 30 THEN (IF n = 0 THEN 0 ELSE 1)
  ELSE LET q == n \div Pow2(d)
       IN  IF n % Pow2(d) = 0 THEN q
           ELSE IF q % 2 = 0 THEN q + 1 ELSE q

RECURSIVE F32Normalize(_, _, _)
\* s carries three bits below the mantissa; shift it into [2^26, 2^27) and round.
F32Normalize(neg, s, e) ==
  IF s = 0 THEN F32Zero
  ELSE IF s >= Pow2(MantBits + 3) THEN F32Normalize(neg, ShiftRightSticky(s, 1), e + 1)
  ELSE IF s < Pow2(MantBits + 2) THEN F32Normalize(neg, 2 * s, e - 1)
  ELSE F32RoundMant(neg, s \div 8, s % 8, 8, e)

\* Sum of two finite non-zero values, |a| >= |b|.
F32AddOrdered(a, b) ==
  LET d == a.e - b.e
      x == 8 * a.m
      y == ShiftRightSticky(8 * b.m, d)
  IN  IF a.neg = b.neg THEN F32Normalize(a.neg, x + y, a.e)
      ELSE F32Normalize(a.neg, x - y, a.e)

F32Add(a, b) ==
  IF a.cls = "nan" \/ b.cls = "nan" THEN F32NaN
  ELSE IF a.cls = "inf"
       THEN (IF b.cls = "inf" /\ a.neg # b.neg THEN F32NaN ELSE a)
  ELSE IF b.cls = "inf" THEN b
  ELSE IF a.m = 0 /\ b.m = 0 THEN [F32Zero EXCEPT !.neg = a.neg /\ b.neg]
  ELSE IF a.m = 0 THEN b
  ELSE IF b.m = 0 THEN a
  ELSE IF F32MagLt(a, b) THEN F32AddOrdered(b, a) ELSE F32AddOrdered(a, b)

F32Sub(a, b) == F32Add(a, F32Neg(b))

\* Product of two finite non-zero values: the 48-bit product in 12-bit limbs.
F32MulFin(a, b) ==
  LET B == Pow2(MantBits \div 2)
      a1 == a.m \div B
      a0 == a.m % B
      b1 == b.m \div B
      b0 == b.m % B
      mid == a1 * b0 + a0 * b1
      low == (mid % B) * B + a0 * b0
      lo == low % Pow2(MantBits)
      hi == a1 * b1 + (mid \div B) + (low \div Pow2(MantBits))
      neg == a.neg # b.neg
  IN  IF hi >= Pow2(MantBits - 1)
      THEN F32RoundMant(neg, hi, lo, Pow2(MantBits), a.e + b.e + MantBits)
      ELSE F32RoundMant(neg, 2 * hi + (lo \div Pow2(MantBits - 1)),
                        lo % Pow2(MantBits - 1), Pow2(MantBits - 1),
                        a.e + b.e + MantBits - 1)

F32Mul(a, b) ==
  IF a.cls = "nan" \/ b.cls = "nan" THEN F32NaN
  ELSE IF a.cls = "inf" \/ b.cls = "inf"
       THEN (IF (a.cls = "fin" /\ a.m = 0) \/ (b.cls = "fin" /\ b.m = 0)
             THEN F32NaN ELSE F32Inf(a.neg # b.neg))
  ELSE IF a.m = 0 \/ b.m = 0 THEN [F32Zero EXCEPT !.neg = a.neg # b.neg]
  ELSE F32MulFin(a, b)

RECURSIVE OddPart(_)
OddPart(n) == IF n % 2 = 0 THEN OddPart(n \div 2) ELSE n

RECURSIVE TwoAdic(_)
TwoAdic(n) == IF n % 2 = 0 THEN 1 + TwoAdic(n \div 2) ELSE 0

\* a / b for a finite non-zero divisor whose mantissa has an odd part below 128
\* (every divisor of the program is one of the literals 2, 3, 6, 100, 360).
F32Div(a, b) ==
  IF a.cls = "nan" THEN F32NaN
  ELSE IF a.cls = "inf" THEN F32Inf(a.neg # b.neg)
  ELSE F32FromRatio(a.neg # b.neg, a.m, OddPart(b.m), a.e - b.e - TwoAdic(b.m))

\* `x as u8`: truncation toward zero, saturating; NaN gives 0.
F32AsU8(x) ==
  IF x.cls = "nan" THEN 0
  ELSE IF x.cls = "inf" THEN (IF x.neg THEN 0 ELSE U8Max)
  ELSE IF x.m = 0 \/ x.neg THEN 0
  ELSE IF x.e >= 0 THEN U8Max
  ELSE IF -x.e > 30 THEN 0
  ELSE LET i == x.m \div Pow2(-x.e) IN IF i > U8Max THEN U8Max ELSE i

\* f32::round: to the nearest integer, halves away from zero.
F32RoundHalfAway(x) ==
  IF x.cls # "fin" \/ x.m = 0 \/ x.e >= 0 THEN x
  ELSE IF -x.e > MantBits THEN [F32Zero EXCEPT !.neg = x.neg]
  ELSE LET unit == Pow2(-x.e)
           i == x.m \div unit
           f == x.m % unit
           n == IF 2 * f >= unit THEN i + 1 ELSE i
       IN  F32FromRatio(x.neg, n, 1, 0)

-----------------------------------------------------------------------------
(* str::parse::<f32> and the Display of an f32.                            *)

IsDigit(c) == Occurs(DigitChars, c)

RECURSIVE leading_digits(_)
\* The number of leading ASCII digits of s.
leading_digits(s) ==
  IF s # <<>> /\ IsDigit(Head(s)) THEN 1 + leading_digits(Tail(s)) ELSE 0

RECURSIVE dec_value(_, _)
dec_value(s, acc) ==
  IF s = <<>> THEN acc
  ELSE dec_value(Tail(s), 10 * acc + IndexOf(DigitChars, Head(s)) - 1)

Drop(s, n) == SubSeq(s, n + 1, Len(s))

RECURSIVE F32FromDecimal(_, _, _)
\* The f32 nearest to n / 10^scale (n >= 0).  Defined for at most three
\* fractional digits once trailing zeros are dropped.
F32FromDecimal(neg, n, scale) ==
  IF n = 0 THEN [F32Zero EXCEPT !.neg = neg]
  ELSE IF scale > 0 /\ n % 10 = 0 THEN F32FromDecimal(neg, n \div 10, scale - 1)
  ELSE IF scale <= 0 THEN F32FromRatio(neg, n * 10 ^ (-scale), 1, 0)
  ELSE F32FromRatio(neg, n, 5 ^ scale, -scale)

\* The end of the grammar: digits are the mantissa digits, nf of them after
\* the point, ex the exponent, rest the text left over.
f32_finish(neg, digits, nf, expOk, ex, rest) ==
  IF digits = <<>> \/ ~expOk \/ rest # <<>>
  THEN [ok |-> FALSE, val |-> F32NaN]
  ELSE [ok |-> TRUE, val |-> F32FromDecimal(neg, dec_value(digits, 0), nf - ex)]

\* The exponent digits: the first ne characters of r5.
f32_exp_digits(neg, digits, nf, expNeg, r5, ne) ==
  f32_finish(neg, digits, nf, ne > 0,
             IF expNeg THEN -dec_value(SubSeq(r5, 1, ne), 0)
             ELSE dec_value(SubSeq(r5, 1, ne), 0),
             Drop(r5, ne))

\* The sign of the exponent.
f32_exp_sign(neg, digits, nf, r4) ==
  IF r4 # <<>> /\ Head(r4) \in {"+", "-"}
  THEN f32_exp_digits(neg, digits, nf, Head(r4) = "-", Tail(r4),
                      leading_digits(Tail(r4)))
  ELSE f32_exp_digits(neg, digits, nf, FALSE, r4, leading_digits(r4))

\* The optional exponent after the mantissa.
f32_exponent(neg, digits, nf, r3) ==
  IF r3 # <<>> /\ Head(r3) \in {"e", "E"}
  THEN f32_exp_sign(neg, digits, nf, Tail(r3))
  ELSE f32_finish(neg, digits, nf, TRUE, 0, r3)

\* The fractional digits: the first nf characters of r2.
f32_fraction(neg, int, r2, nf) ==
  f32_exponent(neg, int \o SubSeq(r2, 1, nf), nf, Drop(r2, nf))

\* The optional point after the integer digits int.
f32_point(neg, int, r1) ==
  IF r1 # <<>> /\ Head(r1) = "."
  THEN f32_fraction(neg, int, Tail(r1), leading_digits(Tail(r1)))
  ELSE f32_fraction(neg, int, r1, 0)

\* The integer digits: the first ni characters of s.
f32_integer(neg, s, ni) == f32_point(neg, SubSeq(s, 1, ni), Drop(s, ni))

\* The decimal grammar of f32::from_str, after the sign:
\* digits ['.' digits] [('e' | 'E') ['+' | '-'] digits], with a digit in the
\* integer or the fractional part.
f32_parse_number(neg, s) == f32_integer(neg, s, leading_digits(s))

\* The special values by their lower-case spelling.
f32_special(neg, low) ==
  IF low = <<"n", "a", "n">> THEN [ok |-> TRUE, val |-> F32NaN]
  ELSE IF low = <<"i", "n", "f">>
          \/ low = <<"i", "n", "f", "i", "n", "i", "t", "y">>
       THEN [ok |-> TRUE, val |-> F32Inf(neg)]
  ELSE [ok |-> FALSE, val |-> F32NaN]

\* "inf", "infinity" and "nan" in any letter case.
f32_parse_special(neg, s) == f32_special(neg, to_lowercase(s))

\* A number, or else one of the special values.
f32_number_or_special(num, neg, body) ==
  IF num.ok THEN num ELSE f32_parse_special(neg, body)

\* The text after the sign.
f32_parse_body(neg, body) ==
  IF body = <<>> THEN [ok |-> FALSE, val |-> F32NaN]
  ELSE f32_number_or_special(f32_parse_number(neg, body), neg, body)

\* s.parse::<f32>()
f32_parse(s) ==
  IF s # <<>> /\ Head(s) \in {"+", "-"}
  THEN f32_parse_body(Head(s) = "-", Tail(s))
  ELSE f32_parse_body(FALSE, s)

RECURSIVE int_to_str(_)
int_to_str(n) ==
  IF n < 10 THEN <<DigitChars[n + 1]>>
  ELSE int_to_str(n \div 10) \o <<DigitChars[(n % 10) + 1]>>

RECURSIVE pad_zeros(_, _)
pad_zeros(s, width) == IF Len(s) >= width THEN s ELSE pad_zeros(<<"0">> \o s, width)

\* |x| as whole + part / unit, for a finite non-zero x.
F32Split(x) ==
  IF x.e >= 0 THEN [whole |-> x.m * Pow2(x.e), part |-> 0, unit |-> 1]
  ELSE [whole |-> x.m \div Pow2(-x.e), part |-> x.m % Pow2(-x.e), unit |-> Pow2(-x.e)]

\* whole + part / unit times 10^j, rounded to the nearest integer.
scaled_round(sp, j) ==
  sp.whole * 10 ^ j + (sp.part * 10 ^ j) \div sp.unit
  + (IF 2 * ((sp.part * 10 ^ j) % sp.unit) >= sp.unit THEN 1 ELSE 0)

\* |x| times 10^j, rounded to the nearest integer.
F32Scaled(x, j) == scaled_round(F32Split(x), j)

\* Whether |x| with j fractional digits parses back to x.
display_fits(x, j) == F32FromDecimal(x.neg, F32Scaled(x, j), j) = x

\* The least number of fractional digits that parses back to x.
shortest_scale(x) ==
  CHOOSE k \in 0..2 : display_fits(x, k) /\ \A i \in 0..(k - 1) : ~display_fits(x, i)

\* d / 10^j in decimal notation.
display_decimal(d, j) ==
  int_to_str(d \div 10 ^ j)
  \o (IF j = 0 THEN <<>> ELSE <<".">> \o pad_zeros(int_to_str(d % 10 ^ j), j))

\* |x| with j fractional digits.
display_scaled(x, j) == display_decimal(F32Scaled(x, j), j)

\* format!("{}", x): the shortest decimal that parses back to x, without an
\* exponent.  Defined for values whose shortest decimal has at most two
\* fractional digits.
F32Display(x) ==
  IF x.cls = "nan" THEN <<"N", "a", "N">>
  ELSE IF x.cls = "inf"
       THEN (IF x.neg THEN <<"-">> ELSE <<>>) \o <<"i", "n", "f">>
  ELSE IF x.m = 0 THEN (IF x.neg THEN <<"-">> ELSE <<>>) \o <<"0">>
  ELSE (IF x.neg THEN <<"-">> ELSE <<>>) \o display_scaled(x, shortest_scale(x))

-----------------------------------------------------------------------------
(* String searching and splitting.                                         *)

\* str::find(c): the index of the first c in s, 0 for None.
find(s, c) ==
  IF Occurs(s, c)
  THEN CHOOSE i \in 1..Len(s) : s[i] = c /\ \A j \in 1..(i - 1) : s[j] # c
  ELSE 0

\* str::rfind(c): the index of the last c in s, 0 for None.
rfind(s, c) ==
  IF Occurs(s, c)
  THEN CHOOSE i \in 1..Len(s) : s[i] = c /\ \A j \in (i + 1)..Len(s) : s[j] # c
  ELSE 0

contains(s, c) == Occurs(s, c)

\* str::split_once(c): the text before and after the first c.
split_once(s, c) ==
  LET i == find(s, c)
  IN  IF i = 0 THEN [found |-> FALSE, before |-> s, after |-> <<>>]
      ELSE [found |-> TRUE, before |-> SubSeq(s, 1, i - 1), after |-> Drop(s, i)]

\* str::replace(from, to) for single characters.
replace(s, from, to) ==
  IF s = <<>> THEN <<>>
  ELSE [i \in 1..Len(s) |-> IF s[i] = from THEN to ELSE s[i]]

RECURSIVE split_whitespace(_)
\* str::split_whitespace: the maximal runs of non-whitespace characters.
split_whitespace(s) ==
  LET t == trim_start(s)
      n == IF \E i \in 1..Len(t) : IsWhitespace(t[i])
           THEN (CHOOSE i \in 1..Len(t) :
                   IsWhitespace(t[i]) /\ \A j \in 1..(i - 1) : ~IsWhitespace(t[j])) - 1
           ELSE Len(t)
  IN  IF t = <<>> THEN <<>>
      ELSE <<SubSeq(t, 1, n)>> \o split_whitespace(Drop(t, n))

\* str::strip_suffix(c)
strip_suffix(s, c) ==
  IF s # <<>> /\ s[Len(s)] = c
  THEN [found |-> TRUE, rest |-> SubSeq(s, 1, Len(s) - 1)]
  ELSE [found |-> FALSE, rest |-> s]

RECURSIVE trim_end_matches(_, _)
\* str::trim_end_matches(pat): every trailing repetition of pat removed.
trim_end_matches(s, pat) ==
  IF ends_with(s, pat) THEN trim_end_matches(SubSeq(s, 1, Len(s) - Len(pat)), pat)
  ELSE s

-----------------------------------------------------------------------------
(* Rule 2: rgb() and rgba().                                               *)

\* The upper ends of the ranges 0.0..=100.0 (percentages) and 0.0..=360.0 (hue).
MaxPercent == 100

MaxHue == 360

\* Mutant of component_bad: the error text loses its '%'.
component_bad_stripped(comp) ==
  [ok |-> FALSE, v |-> 0,
   err |-> ErrWith("InvalidComponentValue", strip_suffix(comp, "%").rest)]

\* Err(ParseError::InvalidComponentValue(comp.to_string()))
component_bad(comp) ==
  [ok |-> FALSE, v |-> 0, err |-> ErrWith("InvalidComponentValue", comp)]

component_ok(v) == [ok |-> TRUE, v |-> v, err |-> Err("none")]

\* (val / 100.0 * 255.0).round() as u8
percent_to_u8(val) ==
  F32AsU8(F32RoundHalfAway(
    F32Mul(F32Div(val, F32FromInt(MaxPercent)), F32FromInt(U8Max))))

\* A percentage whose number parsed to val.
percent_component(comp, val) ==
  IF ~val.ok THEN component_bad(comp)
  ELSE IF ~F32InRange(val.val, F32Zero, F32FromInt(MaxPercent))
       THEN component_bad(comp)
  ELSE component_ok(percent_to_u8(val.val))

\* A plain number; n < 0 is a failed parse::<u8>().
integer_component(comp, n) ==
  IF n < 0 THEN component_bad(comp) ELSE component_ok(n)

\* The trimmed component, pct being its strip_suffix('%').
trimmed_component(comp, pct) ==
  IF pct.found THEN percent_component(comp, f32_parse(pct.rest))
  ELSE integer_component(comp, u8_from_str_radix(comp, 10))

\* One component: [ok, v] on success, [ok, err] on failure.
parse_rgb_component(comp0) ==
  trimmed_component(trim(comp0), strip_suffix(trim(comp0), "%"))

\* Mutant of rgb_format_ok: four parts are accepted however they are separated.
rgb_format_ok_any4(color_parts, has_alpha_slash, content) ==
  Len(color_parts) = 3 \/ Len(color_parts) = 4

\* The arity checks on the parts of rgb(...).
rgb_format_ok(color_parts, has_alpha_slash, content) ==
  /\ Len(color_parts) = 3 \/ Len(color_parts) = 4
  /\ ~(Len(color_parts) = 4 /\ ~has_alpha_slash /\ ~contains(content, ","))

\* The colour of three parsed components; the first failure ends the call.
rgb_color(r, g, b) ==
  IF ~r.ok THEN r.err
  ELSE IF ~g.ok THEN g.err
  ELSE IF ~b.ok THEN b.err
  ELSE Ok(r.v, g.v, b.v)

\* The checks on the parts and their conversion.
rgb_parts(color_parts, has_alpha_slash, content) ==
  IF ~rgb_format_ok(color_parts, has_alpha_slash, content)
  THEN Err("InvalidRgbFormat")
  ELSE rgb_color(parse_rgb_component(color_parts[1]),
                 parse_rgb_component(color_parts[2]),
                 parse_rgb_component(color_parts[3]))

\* The colour part before a '/', commas replaced by blanks, split at whitespace.
rgb_split(content, sp) ==
  rgb_parts(split_whitespace(replace(sp.before, ",", " ")), sp.found, content)

\* The text between the parentheses.
rgb_content(content) == rgb_split(content, split_once(content, "/"))

\* start and end are the positions of the first '(' and the last ')'.
rgb_between(inp, start, end) ==
  IF start = 0 \/ end = 0 THEN Err("InvalidRgbFormat")
  ELSE IF start + 1 > end THEN Panic
  ELSE rgb_content(SubSeq(inp, start + 1, end - 1))

parse_rgb(inp) == rgb_between(inp, find(inp, "("), rfind(inp, ")"))

-----------------------------------------------------------------------------
(* Rule 3: hsl() and hsla().                                               *)

F32One == F32FromInt(1)

F32Two == F32FromInt(2)

F32Three == F32FromInt(3)

F32Six == F32FromInt(6)

\* if t < 0.0 { t += 1.0 }
hue_wrap_below(t) == IF F32Lt(t, F32Zero) THEN F32Add(t, F32One) ELSE t

\* if t > 1.0 { t -= 1.0 }
hue_wrap_above(t) == IF F32Lt(F32One, t) THEN F32Sub(t, F32One) ELSE t

\* The piecewise-linear channel value at t in 0..1.
hue_segment(p, q, t) ==
  IF F32Lt(t, F32Div(F32One, F32Six))
  THEN F32Add(p, F32Mul(F32Mul(F32Sub(q, p), F32Six), t))
  ELSE IF F32Lt(t, F32Div(F32One, F32Two)) THEN q
  ELSE IF F32Lt(t, F32Div(F32Two, F32Three))
       THEN F32Add(p, F32Mul(F32Mul(F32Sub(q, p),
                                    F32Sub(F32Div(F32Two, F32Three), t)),
                             F32Six))
  ELSE p

hue_to_rgb(p, q, t0) == hue_segment(p, q, hue_wrap_above(hue_wrap_below(t0)))

\* Mutant of channel_to_u8: the channel is rounded, not truncated.
channel_to_u8_rounded(x) == F32AsU8(F32RoundHalfAway(F32Mul(x, F32FromInt(U8Max))))

\* (x * 255.0) as u8
channel_to_u8(x) == F32AsU8(F32Mul(x, F32FromInt(U8Max)))

\* let q = if l < 0.5 { l * (1.0 + s) } else { l + s - l * s };
hsl_q(s, l) ==
  IF F32Lt(l, F32Div(F32One, F32Two))
  THEN F32Mul(l, F32Add(F32One, s))
  ELSE F32Sub(F32Add(l, s), F32Mul(l, s))

\* let p = 2.0 * l - q;
hsl_p(l, q) == F32Sub(F32Mul(F32Two, l), q)

\* The three channels at h + 1/3, h and h - 1/3.
hsl_chromatic(h, p, q) ==
  Ok(channel_to_u8(hue_to_rgb(p, q, F32Add(h, F32Div(F32One, F32Three)))),
     channel_to_u8(hue_to_rgb(p, q, h)),
     channel_to_u8(hue_to_rgb(p, q, F32Sub(h, F32Div(F32One, F32Three)))))

hsl_with_q(h, l, q) == hsl_chromatic(h, hsl_p(l, q), q)

hsl_gray(val) == Ok(val, val, val)

\* h, s and l scaled to 0..1.
hsl_unit(h, s, l) ==
  IF F32Eq(s, F32Zero) THEN hsl_gray(channel_to_u8(l))
  ELSE hsl_with_q(h, l, hsl_q(s, l))

\* The conversion of validated h in 0..360 and s, l in 0..100.
hsl_to_rgb(h0, s0, l0) ==
  hsl_unit(F32Div(h0, F32FromInt(MaxHue)),
           F32Div(s0, F32FromInt(MaxPercent)),
           F32Div(l0, F32FromInt(MaxPercent)))

\* The arity checks on the parts of hsl(...).
hsl_format_ok(parts, has_alpha_slash, content) ==
  /\ Len(parts) = 3 \/ Len(parts) = 4
  /\ ~(Len(parts) = 4 /\ ~has_alpha_slash /\ ~contains(content, ","))

\* Err(ParseError::InvalidComponentValue(format!("H: {}", h)))
hsl_range_err(label, x) ==
  ErrWith("InvalidComponentValue", <<label, ":", " ">> \o F32Display(x))

\* The parsed numbers h, s and l: parse failures first, then the ranges.
hsl_numbers(parts, h, s, l) ==
  IF ~h.ok THEN ErrWith("InvalidComponentValue", parts[1])
  ELSE IF ~s.ok THEN ErrWith("InvalidComponentValue", parts[2])
  ELSE IF ~l.ok THEN ErrWith("InvalidComponentValue", parts[3])
  ELSE IF ~F32InRange(h.val, F32Zero, F32FromInt(MaxHue))
       THEN hsl_range_err("H", h.val)
  ELSE IF ~F32InRange(s.val, F32Zero, F32FromInt(MaxPercent))
       THEN hsl_range_err("S", s.val)
  ELSE IF ~F32InRange(l.val, F32Zero, F32FromInt(MaxPercent))
       THEN hsl_range_err("L", l.val)
  ELSE hsl_to_rgb(h.val, s.val, l.val)

\* The checks on the parts and their conversion.
hsl_parts(parts, has_alpha_slash, content) ==
  IF ~hsl_format_ok(parts, has_alpha_slash, content)
  THEN Err("InvalidHslFormat")
  ELSE hsl_numbers(parts,
                   f32_parse(trim_end_matches(trim(parts[1]), <<"d", "e", "g">>)),
                   f32_parse(trim_end_matches(trim(parts[2]), <<"%">>)),
                   f32_parse(trim_end_matches(trim(parts[3]), <<"%">>)))

\* The colour part before a '/', commas replaced by blanks, split at whitespace.
hsl_split(content, sp) ==
  hsl_parts(split_whitespace(replace(sp.before, ",", " ")), sp.found, content)

\* The text between the parentheses.
hsl_content(content) == hsl_split(content, split_once(content, "/"))

\* start and end are the positions of the first '(' and the last ')'.
hsl_between(inp, start, end) ==
  IF start = 0 \/ end = 0 THEN Err("InvalidHslFormat")
  ELSE IF start + 1 > end THEN Panic
  ELSE hsl_content(SubSeq(inp, start + 1, end - 1))

parse_hsl(inp) == hsl_between(inp, find(inp, "("), rfind(inp, ")"))

-----------------------------------------------------------------------------
(* The dispatcher.                                                         *)

\* Mutant of parse_color: the functional forms are recognised by their prefix
\* alone, without the test for a closing ')' at the end.
parse_color_prefix_only(raw) ==
  LET inp == trim(raw)
      rgbPrefix == starts_with(inp, <<"r", "g", "b", "(">>)
                   \/ starts_with(inp, <<"r", "g", "b", "a", "(">>)
      hslPrefix == starts_with(inp, <<"h", "s", "l", "(">>)
                   \/ starts_with(inp, <<"h", "s", "l", "a", "(">>)
  IN  IF inp = <<>> THEN Err("InvalidHexFormat")
      ELSE IF starts_with(inp, <<"#">>) THEN parse_hex(inp)
      ELSE IF rgbPrefix THEN parse_rgb(inp)
      ELSE IF hslPrefix THEN parse_hsl(inp)
      ELSE parse_named(inp)

parse_color(raw) ==
  LET inp == trim(raw)
      rgbPrefix == starts_with(inp, <<"r", "g", "b", "(">>)
                   \/ starts_with(inp, <<"r", "g", "b", "a", "(">>)
      hslPrefix == starts_with(inp, <<"h", "s", "l", "(">>)
                   \/ starts_with(inp, <<"h", "s", "l", "a", "(">>)
  IN  IF inp = <<>> THEN Err("InvalidHexFormat")
      ELSE IF starts_with(inp, <<"#">>) THEN parse_hex(inp)
      ELSE IF rgbPrefix /\ ends_with(inp, <<")">>) THEN parse_rgb(inp)
      ELSE IF hslPrefix /\ ends_with(inp, <<")">>) THEN parse_hsl(inp)
      ELSE parse_named(inp)

-----------------------------------------------------------------------------
(* The state machine: one call of parse_color on one input line.           *)

NoResult == [kind |-> "None"]

\* src/src/main.rs calls parse_color once per line and reports its result.
ParseColor ==
  /\ pc = "start"
  /\ result' = parse_color(input)
  /\ pc' = "done"
  /\ UNCHANGED input

Next == ParseColor

InitWith(S) == input \in S /\ pc = "start" /\ result = NoResult

Done == pc = "done"

-----------------------------------------------------------------------------
(* Input families.                                                         *)

SeqsUpTo(S, n) == UNION {[1..k -> S] : k \in 0..n}

RECURSIVE Join(_, _)
\* The strings of the sequence parts, sep between each two.
Join(parts, sep) ==
  IF parts = <<>> THEN <<>>
  ELSE IF Len(parts) = 1 THEN parts[1]
  ELSE parts[1] \o sep \o Join(Tail(parts), sep)

Hash == <<"#">>

\* Hex digits of both cases, a sign, a letter that is no hex digit, and a
\* character two bytes wide.
HexAlphabet == {"0", "a", "F", "+", "g", EAcute}

\* Every text of up to MaxHexShort characters is drawn after the '#'.
MaxHexShort == 4

HexPairs ==
  {<<"0", "a">>, <<"F", "F">>, <<"+", "a">>, <<"a", "+">>, <<"g", "0">>,
   <<"0", "g">>, <<EAcute>>}

HexTails ==
  {<<>>, <<"a">>, <<"F", "0">>, <<"g", "g">>, <<"+", EAcute>>, <<"0", "0", "0">>}

HexInputs ==
  {Hash \o s : s \in SeqsUpTo(HexAlphabet, MaxHexShort)}
  \cup {Hash \o p1 \o p2 \o p3 \o t : p1 \in HexPairs, p2 \in HexPairs,
                                     p3 \in HexPairs, t \in HexTails}

HexInit == InitWith(HexInputs)

SpecHex == HexInit /\ [][Next]_vars

\* Byte values two of the three channels are drawn from; the third channel
\* takes every value 0..255.
ByteSamples == {0, 171, 255}

ByteTriples ==
  {<<v, x, y>> : v \in 0..U8Max, x \in ByteSamples, y \in ByteSamples}
  \cup {<<x, v, y>> : v \in 0..U8Max, x \in ByteSamples, y \in ByteSamples}
  \cup {<<x, y, v>> : v \in 0..U8Max, x \in ByteSamples, y \in ByteSamples}

LowerHexDigits ==
  <<"0", "1", "2", "3", "4", "5", "6", "7", "8", "9", "a", "b", "c", "d", "e", "f">>

UpperHexDigits ==
  <<"0", "1", "2", "3", "4", "5", "6", "7", "8", "9", "A", "B", "C", "D", "E", "F">>

\* Two hexadecimal digits of a byte ("{:02x}" or "{:02X}").
hex2(v, upper) ==
  LET digs == IF upper THEN UpperHexDigits ELSE LowerHexDigits
  IN  <<digs[(v \div 16) + 1], digs[(v % 16) + 1]>>

\* The canonical rendering '#RRGGBB' of a colour.
hex_render(r, g, b, upper) == Hash \o hex2(r, upper) \o hex2(g, upper) \o hex2(b, upper)

\* A few inputs of the other grammars that parse to a colour.
OtherAccepted ==
  {e.name : e \in NamedTable}
  \cup {<<"#", "f", "0", "3">>, <<"#", "0", "F", "0", "8">>,
        <<"r", "g", "b", "(", "2", "5", "5", ",", "1", "0", "0", ",", "0", ")">>,
        <<"r", "g", "b", "(", "1", "0", "%", " ", "5", "0", "%", " ", "9", "0", "%", ")">>,
        <<"h", "s", "l", "(", "1", "2", "0", ",", "1", "0", "0", "%", ",", "5", "0", "%", ")">>,
        <<"h", "s", "l", "(", "2", "1", "0", " ", "4", "0", "%", " ", "3", "0", "%", ")">>,
        <<"h", "s", "l", "(", "0", ",", "0", "%", ",", "5", "0", "%", ")">>}

RoundTripInputs ==
  {hex_render(t[1], t[2], t[3], u) : t \in ByteTriples, u \in BOOLEAN}
  \cup OtherAccepted

RoundTripInit == InitWith(RoundTripInputs)

SpecRoundTrip == RoundTripInit /\ [][Next]_vars

\* Every spelling of w in upper- and lower-case letters.
CaseVariants(w) ==
  {[i \in 1..Len(w) |-> IF i \in U THEN char_to_uppercase(w[i]) ELSE w[i]] :
     U \in SUBSET (1..Len(w))}

Capitalised(w) == <<char_to_uppercase(w[1])>> \o Tail(w)

AllUpper(w) == [i \in 1..Len(w) |-> char_to_uppercase(w[i])]

\* Texts one edit away from a keyword: a prefix, a suffix, a letter more, a
\* blank inside, the keyword twice.
NearMisses(w) ==
  {SubSeq(w, 1, Len(w) - 1), Tail(w), w \o <<"x">>, <<"x">> \o w,
   <<w[1], " ">> \o Tail(w), w \o w, w \o <<"-">>}

Pads == {<<>>, <<" ">>, <<"\t", " ">>}

NamedInputs ==
  UNION {CaseVariants(e.name) : e \in NamedTable}
  \cup UNION {NearMisses(v) : v \in UNION {{e.name, Capitalised(e.name), AllUpper(e.name)} :
                                             e \in NamedTable}}
  \cup {p \o v \o q : p \in Pads, q \in Pads,
                      v \in UNION {{e.name, Capitalised(e.name),
                                    SubSeq(AllUpper(e.name), 1, Len(e.name) - 1)} :
                                     e \in NamedTable}}
  \cup {<<"g", "r", "e", "y">>, <<"n", "o", "t", "a", "c", "o", "l", "o", "r">>,
        <<"h", "e", "l", "l", "o">>, <<"f", "0", "0">>, <<"R">>, <<"r", "g", "b">>}

NamedInit == InitWith(NamedInputs)

SpecNamed == NamedInit /\ [][Next]_vars

FuncNames == {<<"r", "g", "b">>, <<"r", "g", "b", "a">>, <<"h", "s", "l">>, <<"h", "s", "l", "a">>}

\* A valid component and a text that is no number.
ArityTokens == {<<"1">>, <<"x">>}

\* At most MaxTokens components are written between the parentheses.
MaxTokens == 5

Separators == {<<",">>, <<" ">>, <<",", " ">>, <<"\t">>}

\* Nothing, or a '/' followed by an alpha text.
SlashSuffixes == {<<>>, <<"/">>, <<" ", "/", " ", "0", ".", "5">>, <<"/", " ", "1", " ", "2">>, <<" ", "/", " ", "0", ",", "5">>}

TokenInputs ==
  {name \o <<"(">> \o Join(toks, sep) \o alpha \o <<")">> :
     name \in FuncNames, toks \in SeqsUpTo(ArityTokens, MaxTokens),
     sep \in Separators, alpha \in SlashSuffixes}
  \cup {<<"r", "g", "b", "(", ",", "1", ",", "x", ",", "1", ")">>, <<"r", "g", "b", "(", "1", ",", ",", "x", ",", ",", "1", ",", ")">>, <<"h", "s", "l", "(", " ", "1", " ", ",", " ", "1", " ", ",", "1", " ", ")">>, <<"h", "s", "l", "a", "(", "1", ",", "1", " ", "1", " ", "1", ")">>,
        <<"r", "g", "b", "a", "(", "1", " ", "1", ",", "1", " ", "1", ")">>, <<"r", "g", "b", "(", "1", " ", "1", " ", "1", " ", "1", ",", "/", ")">>, <<"h", "s", "l", "(", ")">>, <<"r", "g", "b", "(", "/", ")">>}

TokenInit == InitWith(TokenInputs)

SpecTokens == TokenInit /\ [][Next]_vars

\* Components of rgb(...): integers and percentages in and out of range, signed,
\* fractional, and texts that are no numbers.
RgbTokens ==
  {<<"0">>, <<"2", "5", "5">>, <<"2", "5", "6">>, <<"-", "1">>, <<"+", "5">>, <<"1", ".", "5">>, <<"x">>, <<"5", "0", "%">>, <<"1", "0", "0", "%">>, <<"1", "0", "1", "%">>, <<"-", "1", "%">>,
   <<"x", "%">>, <<"1", "2", ".", "5", "%">>}

HueTokens ==
  {<<"0">>, <<"1", "2", "0">>, <<"3", "6", "0">>, <<"3", "6", "1">>, <<"4", "0", "0", "d", "e", "g">>, <<"-", "1">>, <<"3", "0", ".", "5">>, <<"4", "0", "0", ".", "5">>, <<"x">>, <<"9", "0", "d", "e", "g", "d", "e", "g">>,
   <<"n", "a", "n">>}

SatTokens == {<<"0", "%">>, <<"5", "0", "%">>, <<"1", "0", "0", "%">>, <<"1", "0", "1", "%">>, <<"-", "5">>, <<"x", "%">>, <<"i", "n", "f">>}

LightTokens == {<<"5", "0", "%">>, <<"0">>, <<"1", "0", "0">>, <<"1", "0", "1">>, <<"-", "0", ".", "5", "%">>, <<"x">>}

ComponentInputs ==
  {<<"r", "g", "b", "(">> \o a \o <<",", " ">> \o b \o <<",", " ">> \o c \o <<")">> :
     a \in RgbTokens, b \in RgbTokens, c \in RgbTokens}
  \cup {name \o <<"(">> \o h \o sep \o s \o sep \o l \o <<")">> :
          name \in {<<"h", "s", "l">>, <<"h", "s", "l", "a">>}, sep \in {<<",", " ">>, <<" ">>},
          h \in HueTokens, s \in SatTokens, l \in LightTokens}

ComponentInit == InitWith(ComponentInputs)

SpecComponent == ComponentInit /\ [][Next]_vars

\* Hues at which the alternative spellings of an achromatic colour are drawn.
HueSamples == {0, 60, 127, 240, 360}

GrayInputs ==
  {<<"h", "s", "l", "(">> \o int_to_str(h) \o <<",", "0", "%", ",">> \o int_to_str(l) \o <<"%", ")">> :
     h \in 0..MaxHue, l \in 0..MaxPercent}
  \cup {<<"h", "s", "l", "a", "(">> \o int_to_str(h) \o <<"d", "e", "g", " ", "0", " ">> \o int_to_str(l) \o <<" ", "/", " ", "0", ".", "5", ")">> :
          h \in HueSamples, l \in 0..MaxPercent}
  \cup {<<"h", "s", "l", "(">> \o int_to_str(h) \o <<",", " ", "5", "0", "%", ",", " ">> \o int_to_str(l) \o <<"%", ")">> :
          h \in HueSamples, l \in {0, 25, 50, 100}}

GrayInit == InitWith(GrayInputs)

SpecGray == GrayInit /\ [][Next]_vars

\* One-byte characters for the alpha positions of a hex colour: hexadecimal
\* digits and characters that are none.
AlphaChars == {"0", "8", "a", "F", "g", "+"}

\* Alpha texts: numbers, a percentage, texts that are no numbers.
AlphaTokens == {<<"0", ".", "5">>, <<"1">>, <<"5", "0", "%">>, <<"x">>, <<EAcute>>, <<")">>, <<"a", "/", "b">>, <<"-">>}

\* Texts that are no single token; they can follow a '/'.
AlphaTexts == {<<>>, <<"1", " ", "2">>, <<"0", ",", "5">>}

AsciiHexAlphabet == HexAlphabet \ {EAcute}

AsciiHexPairs == HexPairs \ {<<EAcute>>}

\* '#' with three characters and with three pairs of characters.
AlphaHexBases ==
  {Hash \o s : s \in [1..3 -> AsciiHexAlphabet]}
  \cup {Hash \o p1 \o p2 \o p3 : p1 \in AsciiHexPairs, p2 \in AsciiHexPairs,
                                 p3 \in AsciiHexPairs}

AlphaRgbTokens == {<<"0">>, <<"1", "2", "8">>, <<"5", "0", "%">>, <<"x">>}

\* Functional forms of three components, comma- and space-separated.
AlphaFuncBases ==
  {name \o <<"(">> \o a \o sep \o b \o sep \o c \o <<")">> :
     name \in {<<"r", "g", "b">>, <<"r", "g", "b", "a">>}, sep \in {<<",", " ">>, <<" ">>},
     a \in AlphaRgbTokens, b \in AlphaRgbTokens, c \in AlphaRgbTokens}
  \cup {name \o <<"(">> \o h \o sep \o s \o sep \o l \o <<")">> :
          name \in {<<"h", "s", "l">>, <<"h", "s", "l", "a">>}, sep \in {<<",", " ">>, <<" ">>},
          h \in {<<"0">>, <<"1", "2", "0">>, <<"4", "0", "0">>}, s \in {<<"1", "0", "0", "%">>, <<"0">>, <<"3", "7", "%">>}, l \in {<<"5", "0", "%">>, <<"2", "5">>}}

\* The form s with a fourth, comma-separated value, and with an alpha after '/'.
WithCommaAlpha(s, alpha) == SubSeq(s, 1, Len(s) - 1) \o <<",", " ">> \o alpha \o <<")">>

WithSlashAlpha(s, alpha) == SubSeq(s, 1, Len(s) - 1) \o <<" ", "/", " ">> \o alpha \o <<")">>

\* rgb -> rgba, hsl -> hsla.
WithAlphaName(s) ==
  IF s[4] = "(" THEN SubSeq(s, 1, 3) \o <<"a">> \o Drop(s, 3) ELSE s

AlphaInputs ==
  AlphaHexBases \cup AlphaFuncBases
  \cup {s \o <<a>> : s \in {b \in AlphaHexBases : Len(b) = 4}, a \in {"8", "g"}}
  \cup {WithCommaAlpha(s, a) : s \in AlphaFuncBases, a \in {<<"0", ".", "5">>, <<"x">>}}
  \cup {WithSlashAlpha(s, a) : s \in AlphaFuncBases, a \in {<<"0", ".", "5">>, <<"x">>}}

AlphaInit == InitWith(AlphaInputs)

SpecAlpha == AlphaInit /\ [][Next]_vars

\* The inputs of tests/parser_tests.rs and further texts at the borders of the
\* four grammars.
DispatchCores ==
  {<<>>, <<"#", "f", "0", "0">>, <<"#", "0", "f", "0", "8">>, <<"#", "F", "F", "0", "0", "0", "0">>, <<"#", "0", "0", "0", "0", "F", "F", "a", "a">>, <<"#", "f", "0">>, <<"#", "f", "f", "0", "0", "a">>, <<"#", "G", "G", "H", "H", "I", "I">>,
   <<"f", "0", "0">>, <<"#">>, <<"#", "r", "e", "d">>,
   <<"r", "g", "b", "(", "2", "5", "5", ",", " ", "0", ",", " ", "0", ")">>, <<"r", "g", "b", "a", "(", "0", ",", " ", "1", "2", "8", ",", " ", "0", ",", " ", "0", ".", "5", ")">>, <<"r", "g", "b", "(", " ", "0", " ", ",", " ", "2", "5", "5", " ", ",", " ", "0", " ", ")">>,
   <<"r", "g", "b", "(", "2", "5", "5", " ", "0", " ", "0", ")">>, <<"r", "g", "b", "a", "(", "0", " ", "1", "2", "8", " ", "0", " ", "/", " ", "0", ".", "5", ")">>, <<"r", "g", "b", "(", "1", "0", "0", "%", ",", " ", "0", "%", ",", " ", "0", "%", ")">>,
   <<"r", "g", "b", "(", "0", "%", " ", "1", "0", "0", "%", " ", "0", "%", ")">>, <<"r", "g", "b", "a", "(", "0", "%", " ", "0", "%", " ", "1", "0", "0", "%", " ", "/", " ", "1", ".", "0", ")">>,
   <<"r", "g", "b", "(", "2", "5", "5", ",", " ", "0", ")">>, <<"r", "g", "b", "(", "2", "5", "5", ",", " ", "0", ",", " ", "0", ",", " ", "1", ",", " ", "5", ")">>, <<"r", "g", "b", "(", "2", "5", "6", ",", " ", "0", ",", " ", "0", ")">>, <<"r", "g", "b", "(", "2", "5", "5", ",", " ", "0", ",", " ", "0">>,
   <<"r", "g", "b", "(", "1", "0", "1", "%", ",", " ", "0", "%", ",", " ", "0", "%", ")">>, <<"r", "g", "b", "(", "2", "5", "5", " ", "0", " ", "0", " ", "0", ".", "5", ")">>, <<"r", "g", "b", "(", "r", "e", "d", ")">>, <<"r", "g", "b", "(">>, <<"r", "g", "b", "a", "(">>, <<"r", "g", "b">>,
   <<"R", "G", "B", "(", "2", "5", "5", ",", " ", "0", ",", " ", "0", ")">>, <<"r", "g", "b", " ", "(", "2", "5", "5", ",", " ", "0", ",", " ", "0", ")">>, <<"r", "g", "b", "2", "5", "5", ",", " ", "0", ",", " ", "0", ")">>, <<"r", "g", "b", "x", "(", "1", ",", " ", "2", ",", " ", "3", ")">>,
   <<"h", "s", "l", "(", "1", "2", "0", ",", " ", "1", "0", "0", "%", ",", " ", "5", "0", "%", ")">>, <<"h", "s", "l", "a", "(", "0", ",", " ", "1", "0", "0", "%", ",", " ", "5", "0", "%", ",", " ", "1", ".", "0", ")">>, <<"h", "s", "l", "(", "2", "4", "0", ",", " ", "1", "0", "0", ",", " ", "5", "0", ")">>,
   <<"h", "s", "l", "(", "0", ",", " ", "0", "%", ",", " ", "0", "%", ")">>, <<"h", "s", "l", "(", "1", "2", "0", " ", "1", "0", "0", "%", " ", "5", "0", "%", ")">>, <<"h", "s", "l", "a", "(", "0", " ", "1", "0", "0", "%", " ", "5", "0", "%", " ", "/", " ", "1", ".", "0", ")">>,
   <<"h", "s", "l", "(", "2", "4", "0", "d", "e", "g", " ", "1", "0", "0", "%", " ", "5", "0", "%", ")">>, <<"h", "s", "l", "(", "4", "0", "0", ",", " ", "1", "0", "0", "%", ",", " ", "5", "0", "%", ")">>, <<"h", "s", "l", "(", "1", "2", "0", ",", " ", "1", "0", "1", "%", ",", " ", "5", "0", "%", ")">>,
   <<"h", "s", "l", "(", "1", "2", "0", ",", " ", "1", "0", "0", ",", " ", "5", "0", ",", " ", "1", ",", " ", "2", ")">>, <<"h", "s", "l", "(", "1", "2", "0", ",", " ", "1", "0", "0", ",", " ", "5", "0", "a", ")">>, <<"h", "s", "l", "(", "1", "2", "0", ",", " ", "1", "0", "0", "%", ",", " ", "5", "0", "%">>,
   <<"h", "s", "l", "(">>, <<"h", "s", "l", "a", "(">>, <<"h", "s", "l", "1", "2", "0", ",", " ", "1", "0", "0", "%", ",", " ", "5", "0", "%", ")">>, <<"h", "s", "l", "(", "r", "e", "d", ")">>,
   <<"r", "e", "d">>, <<"W", "H", "I", "T", "E">>, <<"r", "e", "b", "e", "c", "c", "a", "p", "u", "r", "p", "l", "e">>, <<"o", "r", "a", "n", "g", "e">>, <<"n", "o", "t", "a", "c", "o", "l", "o", "r">>, <<"h", "e", "l", "l", "o">>, <<"(">>, <<")">>}

\* Text that follows a core.
Trails == {<<>>, <<"a">>, <<" ", "x">>, <<";">>, <<")">>, <<"r", "e", "d">>}

DispatchInputs ==
  {p \o c \o t \o q : p \in Pads, q \in Pads, c \in DispatchCores, t \in Trails}

Init == InitWith(DispatchInputs)

Spec == Init /\ [][Next]_vars

-----------------------------------------------------------------------------
(* Vocabulary of the properties.                                           *)

HexDigitSet ==
  {"0", "1", "2", "3", "4", "5", "6", "7", "8", "9",
   "a", "b", "c", "d", "e", "f", "A", "B", "C", "D", "E", "F"}

IsAscii(s) == \A i \in 1..Len(s) : ByteLen(s[i]) = 1

IsOk(r) == r.kind = "Ok"

\* The text after the '#' of a trimmed hex input.
HexBody(s) == Tail(trim(s))

\* The positions of the text after '#' that hold R, G and B digits.
RgbPositions(n) == IF n \in {3, 4} THEN 1..3 ELSE 1..6

\* 3, 4, 6 or 8 characters with a hexadecimal digit in every R, G, B position.
WellFormedHex(body) ==
  /\ Len(body) \in {3, 4, 6, 8}
  /\ \A i \in RgbPositions(Len(body)) : body[i] \in HexDigitSet

FunctionalPrefixes ==
  {<<"r", "g", "b", "(">>, <<"r", "g", "b", "a", "(">>,
   <<"h", "s", "l", "(">>, <<"h", "s", "l", "a", "(">>}

RgbPrefixes == {<<"r", "g", "b", "(">>, <<"r", "g", "b", "a", "(">>}

HslPrefixes == {<<"h", "s", "l", "(">>, <<"h", "s", "l", "a", "(">>}

HasPrefixIn(s, P) == \E p \in P : starts_with(s, p)

\* The sub-parser the fixed precedence selects for a trimmed text.
Route(s) ==
  IF s # <<>> /\ s[1] = "#" THEN "hex"
  ELSE IF HasPrefixIn(s, RgbPrefixes) /\ s[Len(s)] = ")" THEN "rgb"
  ELSE IF HasPrefixIn(s, HslPrefixes) /\ s[Len(s)] = ")" THEN "hsl"
  ELSE "named"

\* The result of the selected sub-parser on the trimmed text.
SubParserResult(s) ==
  CASE Route(s) = "hex" -> parse_hex(s)
    [] Route(s) = "rgb" -> parse_rgb(s)
    [] Route(s) = "hsl" -> parse_hsl(s)
    [] OTHER -> parse_named(s)

\* s spells the keyword w, each letter in either case.
IsCaseVariant(s, w) ==
  /\ Len(s) = Len(w)
  /\ \A i \in 1..Len(w) : s[i] = w[i] \/ s[i] = char_to_uppercase(w[i])

\* The text between the first '(' and the last ')' of a functional form.
Content(s) == SubSeq(s, find(s, "(") + 1, rfind(s, ")") - 1)

\* The component segment: the content up to its first '/'.
Segment(s) ==
  LET c == Content(s)
  IN  IF contains(c, "/") THEN SubSeq(c, 1, find(c, "/") - 1) ELSE c

IsSeparator(c) == IsWhitespace(c) \/ c = ","

\* The positions of seg where a token starts and where it ends.
TokenStarts(seg) ==
  {i \in 1..Len(seg) : ~IsSeparator(seg[i]) /\ (i = 1 \/ IsSeparator(seg[i - 1]))}

TokenEnd(seg, i) ==
  CHOOSE j \in i..Len(seg) :
    /\ \A k \in i..j : ~IsSeparator(seg[k])
    /\ j = Len(seg) \/ IsSeparator(seg[j + 1])

\* The k-th token of seg (k from 1).
Token(seg, k) ==
  LET i == CHOOSE x \in TokenStarts(seg) :
             Cardinality({y \in TokenStarts(seg) : y < x}) = k - 1
  IN  SubSeq(seg, i, TokenEnd(seg, i))

TokenCount(seg) == Cardinality(TokenStarts(seg))

\* The function name of a functional form, with its '('.
FuncPrefix(s) == SubSeq(s, 1, find(s, "("))

\* The form with the same name and only the first three tokens.
ThreeTokenForm(s) ==
  LET seg == Segment(s)
  IN  FuncPrefix(s) \o Token(seg, 1) \o <<" ">> \o Token(seg, 2) \o <<" ">>
      \o Token(seg, 3) \o <<")">>

FormatError(route) ==
  IF route = "rgb" THEN Err("InvalidRgbFormat") ELSE Err("InvalidHslFormat")

\* An integer literal 0..255 or a percentage 0%..100%.
RgbTokenValid(tok) ==
  IF tok[Len(tok)] = "%"
  THEN LET v == f32_parse(SubSeq(tok, 1, Len(tok) - 1))
       IN  v.ok /\ F32InRange(v.val, F32Zero, F32FromInt(MaxPercent))
  ELSE u8_from_str_radix(tok, 10) >= 0

\* The number a hue (k = 1), saturation or lightness token denotes.
HslNumber(tok, k) ==
  f32_parse(trim_end_matches(tok, IF k = 1 THEN <<"d", "e", "g">> ELSE <<"%">>))

HslLimit(k) == IF k = 1 THEN F32FromInt(MaxHue) ELSE F32FromInt(MaxPercent)

HslInRange(tok, k) == F32InRange(HslNumber(tok, k).val, F32Zero, HslLimit(k))

HslLabel(k) == IF k = 1 THEN <<"H", ":", " ">> ELSE IF k = 2 THEN <<"S", ":", " ">> ELSE <<"L", ":", " ">>

\* The least element of a non-empty set of numbers.
Least(S) == CHOOSE x \in S : \A y \in S : x <= y

\* The integer a token of digits, with an optional unit, denotes.
TokenInt(tok) == dec_value(SubSeq(tok, 1, leading_digits(tok)), 0)

-----------------------------------------------------------------------------
(* C4: hex acceptance.                                                     *)

\* C4 (as claimed): an ASCII input that starts with '#' is accepted only if the
\* text after '#' has 3, 4, 6 or 8 characters with a hexadecimal digit in every
\* R, G and B position; every other such input yields Err(InvalidHexFormat).
C4_HexAcceptance ==
  (Done /\ IsAscii(input) /\ starts_with(trim(input), Hash)) =>
     /\ IsOk(result) => WellFormedHex(HexBody(input))
     /\ ~WellFormedHex(HexBody(input)) => result = Err("InvalidHexFormat")

-----------------------------------------------------------------------------
(* C2: hex round trip.                                                     *)

\* '#' and six hexadecimal digits, the letters all of one case.
IsCanonicalHex(s) ==
  /\ Len(s) = 7 /\ s[1] = "#"
  /\ \/ \A i \in 2..7 : Occurs(LowerHexDigits, s[i])
     \/ \A i \in 2..7 : Occurs(UpperHexDigits, s[i])

RendersTo(r, s) ==
  hex_render(r.r, r.g, r.b, FALSE) = s \/ hex_render(r.r, r.g, r.b, TRUE) = s

\* C2: the rendering '#RRGGBB' of bytes R, G, B, in upper or lower case, parses
\* to Ok(Color{R, G, B}); and the canonical rendering of every colour a
\* successful call returns parses back to that colour.
C2_HexRoundTrip ==
  Done =>
    /\ IsCanonicalHex(input) => IsOk(result) /\ RendersTo(result, input)
    /\ IsOk(result) =>
         \A u \in BOOLEAN :
           parse_color(hex_render(result.r, result.g, result.b, u)) = result

\* A colour with letters in its rendering, read from the upper-case form.
C2_Witness ==
  /\ Done
  /\ input = <<"#", "A", "B", "0", "0", "F", "F">>
  /\ result = Ok(171, 0, 255)

-----------------------------------------------------------------------------
(* C6: named lookup.                                                       *)

\* C6: an input that reaches the named lookup and spells a keyword of the table
\* in any letter case yields that keyword's colour; every other input that
\* reaches the named lookup yields Err(UnknownColorName) carrying the trimmed
\* input in its original letter case.
C6_NamedLookup ==
  (Done /\ trim(input) # <<>> /\ Route(trim(input)) = "named") =>
     LET s == trim(input)
         hits == {e \in NamedTable : IsCaseVariant(s, e.name)}
     IN  IF hits = {} THEN result = ErrWith("UnknownColorName", s)
         ELSE \A e \in hits : result = Ok(e.r, e.g, e.b)

\* A keyword in mixed case is resolved.
C6_Witness ==
  /\ Done
  /\ input = <<"R", "e", "b", "e", "c", "c", "a", "P", "u", "r", "p", "l", "e">>
  /\ result = Ok(102, 51, 153)

-----------------------------------------------------------------------------
(* C5: the arity rule of the tokenizer.                                    *)

\* The arity rule as the specification words it.
ArityViolated(s) ==
  LET n == TokenCount(Segment(s))
  IN  \/ n \notin {3, 4}
      \/ n = 4 /\ ~contains(Content(s), "/") /\ ~contains(Segment(s), ",")

-----------------------------------------------------------------------------
(* C7: the text an InvalidComponentValue error carries.                    *)

\* The components at fault in a functional form: for rgb the invalid tokens,
\* for hsl the tokens that are no numbers or out of range.
Offending(s) ==
  LET seg == Segment(s)
  IN  IF Route(s) = "rgb"
      THEN {k \in 1..3 : ~RgbTokenValid(Token(seg, k))}
      ELSE {k \in 1..3 : ~HslNumber(Token(seg, k), k).ok \/ ~HslInRange(Token(seg, k), k)}

-----------------------------------------------------------------------------
(* C9: the achromatic case of hsl.                                         *)

\* C9: an hsl form with hue H in 0..360, saturation 0 and lightness L in 0..100
\* yields R = G = B = floor(L / 100 * 255), whatever H is.
C9_Achromatic ==
  (Done /\ Route(trim(input)) = "hsl") =>
     LET seg == Segment(trim(input))
         h == TokenInt(Token(seg, 1))
         l == TokenInt(Token(seg, 3))
         v == (l * U8Max) \div MaxPercent
     IN  (Token(seg, 2) \in {<<"0", "%">>, <<"0">>} /\ h \in 0..MaxHue /\ l \in 0..MaxPercent)
           => result = Ok(v, v, v)

\* Half lightness is truncated to 127.
C9_Witness ==
  /\ Done
  /\ input = <<"h", "s", "l", "(", "1", "2", "7", ",", "0", "%", ",", "5", "0", "%", ")">>
  /\ result = Ok(127, 127, 127)

-----------------------------------------------------------------------------
(* C3: alpha never affects the output.                                     *)

\* A functional form of exactly three components and no '/'.
IsThreeComponentForm(s) ==
  /\ Route(s) \in {"rgb", "hsl"}
  /\ ~contains(Content(s), "/")
  /\ TokenCount(Segment(s)) = 3

-----------------------------------------------------------------------------
(* C10: validation of the alpha component.                                 *)

HasAlpha(s) == contains(Content(s), "/") \/ TokenCount(Segment(s)) = 4

\* The alpha component: the text after the first '/', or the fourth token.
AlphaText(s) ==
  IF contains(Content(s), "/")
  THEN trim(Drop(Content(s), find(Content(s), "/")))
  ELSE Token(Segment(s), 4)

\* A number, or a number followed by '%'.
WellFormedAlpha(a) == f32_parse(strip_suffix(a, "%").rest).ok

\* C10 (as claimed): an rgba(...) or hsla(...) input whose alpha component is
\* not a well-formed alpha value is rejected.
C10_AlphaValidated ==
  (Done /\ HasPrefixIn(trim(input), {<<"r", "g", "b", "a", "(">>, <<"h", "s", "l", "a", "(">>})
        /\ Route(trim(input)) \in {"rgb", "hsl"}
        /\ HasAlpha(trim(input)) /\ ~WellFormedAlpha(AlphaText(trim(input))))
     => ~IsOk(result)

-----------------------------------------------------------------------------
(* C1: the dispatcher runs one sub-parser and returns its result.          *)

\* A functional prefix, a ')' and text after the last ')'.
HasTrailingText(s) ==
  HasPrefixIn(s, FunctionalPrefixes) /\ contains(s, ")") /\ s[Len(s)] # ")"

\* What the claim says of a trimmed text s.
DispatchedAlone(s) ==
  /\ result = SubParserResult(s)
  /\ Route(s) # "named" => result.kind # "UnknownColorName"
  /\ HasTrailingText(s) => result = ErrWith("UnknownColorName", s)

\* C1 (as claimed): for every input, the result is the result of the one
\* sub-parser the precedence selects for the trimmed input; a failed hex, rgb or
\* hsl parse is not retried as a name, and text after the closing ')' sends the
\* input to the named lookup, where it fails as an unknown name.
C1_OneSubParser == Done => DispatchedAlone(trim(input))

\* C1 (amended): the same for every input that is not empty after trimming; an
\* input that is empty after trimming yields Err(InvalidHexFormat) and no
\* sub-parser runs.
C1_OneSubParserNonEmpty ==
  Done => IF trim(input) = <<>> THEN result = Err("InvalidHexFormat")
          ELSE DispatchedAlone(trim(input))

\* Text after the closing ')' of a well-formed rgb(...) form.
C1_Witness ==
  /\ Done
  /\ input = <<"r", "g", "b", "(", "2", "5", "5", ",", " ", "0", ",", " ", "0", ")", "a">>
  /\ result = ErrWith("UnknownColorName", <<"r", "g", "b", "(", "2", "5", "5", ",", " ", "0", ",", " ", "0", ")", "a">>)

-----------------------------------------------------------------------------
(* C8: a functional form without its closing parenthesis.                  *)

\* C8 (as claimed): an rgb(/rgba( input without a ')' fails with
\* InvalidRgbFormat, an hsl(/hsla( input without a ')' with InvalidHslFormat.
C8_MissingParenthesis ==
  Done =>
    LET s == trim(input)
    IN  /\ (HasPrefixIn(s, RgbPrefixes) /\ ~contains(s, ")"))
             => result = Err("InvalidRgbFormat")
        /\ (HasPrefixIn(s, HslPrefixes) /\ ~contains(s, ")"))
             => result = Err("InvalidHslFormat")

-----------------------------------------------------------------------------
(* C11: totality.                                                          *)

\* Ok(Color) with three channels of 8 bits each.
IsCompleteColor(r) ==
  /\ r.kind = "Ok"
  /\ DOMAIN r = {"kind", "r", "g", "b"}
  /\ r.r \in 0..U8Max /\ r.g \in 0..U8Max /\ r.b \in 0..U8Max

\* Err(e) for a variant e of ParseError.
IsParseError(r) == r.kind \in ErrorKinds

\* C11 (as claimed): for every input, multi-byte characters after a leading
\* '#' included, parse_color returns Ok(Color) with three complete 8-bit
\* channels or Err(ParseError); it never aborts on a slice of the hex digits.
C11_Totality == Done => (IsCompleteColor(result) \/ IsParseError(result))

=============================================================================
